---- MODULE Spec2Model ----
(***************************************************************************)
(* Meaning IR v3 and its tree-walking evaluator (MeaningVM), as found in   *)
(* src/meaning_engine.py and src/meaning_transpiler_v3_all_in_one.py.      *)
(* The recursive exec() is unfolded into a machine with an explicit        *)
(* continuation (kont): one action per dispatch arm of exec and one per    *)
(* point where an arm resumes after a nested exec returned.                *)
(***************************************************************************)
EXTENDS Integers, Sequences, FiniteSets, TLC

\* ------------------------------------------------------------------------
\* Bounds
\* ------------------------------------------------------------------------
MaxIter == 4
MaxStack == 5
MaxN == 3
MaxK == 3

\* ------------------------------------------------------------------------
\* Python values carried by the evaluator: None, bool, int
\* ------------------------------------------------------------------------
None == [k |-> "none", n |-> 0]
IntV(i) == [k |-> "int", n |-> i]
True == [k |-> "bool", n |-> 1]
False == [k |-> "bool", n |-> 0]
BoolV(b) == IF b THEN True ELSE False

\* truthiness of a value in `if` / `while`
Truthy(v) == v.k # "none" /\ v.n # 0

\* l == r   (None equals only None; True == 1, False == 0)
PyEq(l, r) == IF l.k = "none" \/ r.k = "none" THEN l.k = r.k ELSE l.n = r.n

\* l > r and l < r raise TypeError when an operand is None
Orderable(l, r) == l.k # "none" /\ r.k # "none"

\* JSON null, the encoding of an absent else / value
JsonNull == [intent |-> "null"]
IsPresent(x) == x # JsonNull

\* ------------------------------------------------------------------------
\* Builder classes, each given by its to_json encoding
\* ------------------------------------------------------------------------
Value(v) == [intent |-> "value", value |-> v]
TypedValue(vtype, v) == [intent |-> "typed_value", type |-> vtype, value |-> v]
Symbol(name) == [intent |-> "symbol", name |-> name]
Declare(name, vtype, v) ==
    [intent |-> "declare", name |-> name, type |-> vtype, value |-> v]
Assign(name, v) == [intent |-> "assign", target |-> name, value |-> v]
Output(msg) == [intent |-> "output_text", payload |-> msg]
Compare(o, l, r) ==
    [intent |-> "compare", operation |-> o, left |-> l, right |-> r]
Branch(cond, then_blk, else_blk) ==
    [intent |-> "branch", condition |-> cond, then |-> then_blk,
     else |-> else_blk]
Loop(cond, body) ==
    [intent |-> "loop_until_break", condition |-> cond, body |-> body]
Return(v) == [intent |-> "return", value |-> v]
Call(name, args) == [intent |-> "call", target |-> name, args |-> args]
Block(actions) == [intent |-> "block", actions |-> actions]
Function(name, args, ret, body) ==
    [kind |-> "function", name |-> name, args |-> args, return_type |-> ret,
     body |-> body]
Program(fns, meta) == [meta |-> meta, functions |-> fns]

Param(name) == [name |-> name, type |-> "any"]

\* ------------------------------------------------------------------------
\* Programs the evaluator is run on
\* ------------------------------------------------------------------------
Meta(s) == [source |-> s]

\* the tree returned by the stub analyzer
parse_to_ir_v3 ==
    Program(<<Function("main", <<>>, "unit",
        Block(<<Declare("x", "int", Value(IntV(10))),
                Branch(Compare("greater_than", Symbol("x"), Value(IntV(5))),
                       Block(<<Output("x is greater than 5")>>), JsonNull),
                Loop(Value(True), Block(<<Output("loop"), Return(JsonNull)>>))
              >>))>>, Meta("meaning-ir-v3"))

Payloads == <<"o1", "o2", "o3", "o4", "o5", "o6">>
Flags == <<"f1", "f2", "f3", "f4", "f5", "f6">>

\* main = Block of n Outputs
SeqProgram(n) ==
    Program(<<Function("main", <<>>, "unit",
        Block([i \in 1..n |-> Output(Payloads[i])]))>>, Meta("seq"))

\* Branch(false){..} with no else, then an Output, in one Block
Scenario4 ==
    Program(<<Function("main", <<>>, "unit",
        Block(<<Branch(Value(False), Block(<<Output("then")>>), JsonNull),
                Output("after")>>))>>, Meta("scenario4"))

\* body of a loop that clears one of the flags f1..fk per iteration, fk first
RECURSIVE Chain(_)
Chain(k) ==
    IF k <= 1 THEN Assign(Flags[1], Value(False))
    ELSE Branch(Symbol(Flags[k]), Assign(Flags[k], Value(False)), Chain(k - 1))

\* count(f1..fk) loops exactly k times, emitting "it" in every iteration
Countdown(k) ==
    Program(<<
      Function("main", <<>>, "unit",
        Block(<<Call("count", [i \in 1..k |-> Value(True)])>>)),
      Function("count", [i \in 1..k |-> Param(Flags[i])], "unit",
        Block(<<Loop(IF k = 0 THEN Value(False) ELSE Symbol(Flags[1]),
                     Compare("equal", Output("it"), Chain(k)))>>))
    >>, Meta("countdown"))

\* a Return below Loop/Branch/Block in a callee, with siblings after it
NestedReturn ==
    Program(<<
      Function("main", <<>>, "unit",
        Block(<<Declare("r", "int", Call("f", <<>>))>>)),
      Function("f", <<>>, "int",
        Block(<<Loop(Value(True),
                  Block(<<Branch(Value(True),
                            Block(<<Return(Value(IntV(5))), Output("x")>>),
                            JsonNull),
                          Output("y")>>)),
                Output("z")>>))
    >>, Meta("nested_return"))

\* a callee returning without a value expression, and one falling off its end
BareReturn ==
    Program(<<
      Function("main", <<>>, "unit",
        Block(<<Call("use", <<Call("g", <<>>), Call("h", <<>>)>>)>>)),
      Function("g", <<>>, "unit", Branch(Value(False), Output("no"),
                                         Return(JsonNull))),
      Function("h", <<>>, "unit", Block(<<Output("h")>>)),
      Function("use", <<Param("a"), Param("b")>>, "unit",
        Block(<<Return(Symbol("a"))>>))
    >>, Meta("bare_return"))

\* main returns at top level, outside any Call
MainReturn ==
    Program(<<Function("main", <<>>, "unit",
        Block(<<Return(Value(IntV(1)))>>))>>, Meta("main_return"))

\* add(2,3) returning 2 less_than 3 through the call boundary
Scenario2 ==
    Program(<<
      Function("main", <<>>, "unit",
        Block(<<Declare("r", "bool",
                  Call("add", <<Value(IntV(2)), TypedValue("int", IntV(3))>>))
              >>)),
      Function("add", <<Param("a"), Param("b")>>, "bool",
        Block(<<Return(Compare("less_than", Symbol("a"), Symbol("b")))>>))
    >>, Meta("scenario2"))

\* callee and recursive callee write names that the caller also binds
Isolation ==
    Program(<<
      Function("main", <<>>, "unit",
        Block(<<Call("outer", <<Value(IntV(1)), Value(True)>>)>>)),
      Function("outer", <<Param("x"), Param("a")>>, "unit",
        Block(<<Declare("r", "int",
                  Call("rec", <<Symbol("a"), Value(True),
                                Declare("y", "int", Value(IntV(2)))>>))>>)),
      Function("rec", <<Param("a"), Param("b"), Param("x")>>, "int",
        Branch(Symbol("a"),
          Compare("equal",
            Assign("x", Value(IntV(8))),
            Compare("equal",
              Call("rec", <<Symbol("b"), Value(False), Value(IntV(3))>>),
              Declare("y", "int", Value(IntV(4))))),
          Compare("equal",
            Assign("a", Value(IntV(9))),
            Return(Value(IntV(7))))))
    >>, Meta("isolation"))

\* argument effects are emitted before the callee body runs
ArgOrder ==
    Program(<<
      Function("main", <<>>, "unit",
        Block(<<Call("f", <<Output("a1"), Value(IntV(2)),
                            Call("g", <<>>)>>)>>)),
      Function("g", <<>>, "int", Compare("equal", Output("a3"),
                                         Return(Value(IntV(3))))),
      Function("f", <<Param("p"), Param("q"), Param("r")>>, "unit",
        Block(<<Output("body")>>))
    >>, Meta("arg_order"))

\* Call with more arguments than parameters
Surplus ==
    Program(<<
      Function("main", <<>>, "unit",
        Block(<<Call("f", <<Value(IntV(1)), Value(IntV(2))>>)>>)),
      Function("f", <<Param("a")>>, "unit", Block(<<Output("body")>>))
    >>, Meta("surplus"))

\* Call with fewer arguments than parameters
Deficit ==
    Program(<<
      Function("main", <<>>, "unit",
        Block(<<Call("f", <<Value(IntV(1))>>)>>)),
      Function("f", <<Param("a"), Param("b")>>, "unit",
        Block(<<Output("body")>>))
    >>, Meta("deficit"))

\* Call of a function that is not in the table, with an effectful argument
Scenario5 ==
    Program(<<
      Function("main", <<>>, "unit",
        Compare("equal", Output("before"),
                Call("ghost", <<Output("arg")>>)))
    >>, Meta("scenario5"))

\* the same inside a callee, so that a Frame besides main's is live
GhostInCallee ==
    Program(<<
      Function("main", <<>>, "unit",
        Block(<<Call("f", <<Output("before")>>)>>)),
      Function("f", <<Param("p")>>, "unit",
        Block(<<Call("ghost", <<Output("arg")>>)>>))
    >>, Meta("ghost_in_callee"))

\* Symbol of a name that was never declared
Scenario6 ==
    Program(<<Function("main", <<>>, "unit", Block(<<Symbol("y")>>))>>,
            Meta("scenario6"))

\* a callee reads a name that only its caller declared
CallerOnly ==
    Program(<<
      Function("main", <<>>, "unit",
        Block(<<Call("f", <<Declare("y", "int", Value(IntV(1)))>>)>>)),
      Function("f", <<Param("p")>>, "unit", Block(<<Symbol("y")>>))
    >>, Meta("caller_only"))

\* a node whose tag the dispatch does not know
UnknownTag ==
    Program(<<Function("main", <<>>, "unit",
        Block(<<[intent |-> "jump", target |-> "x"]>>))>>, Meta("unknown_tag"))

\* Compare with an operation outside the three known ones, and on None
BadOperator ==
    Program(<<Function("main", <<>>, "unit",
        Block(<<Compare("not_equal", Value(IntV(1)), Value(IntV(2)))>>))>>,
        Meta("bad_operator"))

NoneOrder ==
    Program(<<Function("main", <<>>, "unit",
        Block(<<Compare("greater_than", Output("n"), Value(IntV(2)))>>))>>,
        Meta("none_order"))

\* no function named main
NoMain ==
    Program(<<Function("start", <<>>, "unit", Block(<<Output("s")>>))>>,
            Meta("no_main"))

\* a function that calls itself without end
Runaway ==
    Program(<<Function("main", <<>>, "unit", Block(<<Call("main", <<>>)>>))>>,
            Meta("runaway"))

\* a loop that never ends: in a Block only the first action of the body runs
\* in meaning_engine.py, so the Return is never reached there
LoopReturn ==
    Program(<<Function("main", <<>>, "unit",
        Block(<<Call("f", <<>>)>>)),
      Function("f", <<>>, "unit",
        Loop(Value(True), Block(<<Output("loop"), Return(JsonNull)>>)))
    >>, Meta("loop_return"))

\* a function that takes any number of arguments and ignores them: its call
\* evaluates the arguments in order, also where a Block would stop early
Use == Function("use", <<>>, "unit", Value(None))

\* a failure three levels down: inside a Branch, inside a Loop, inside a call
\* made while the arguments of another call are evaluated
FailInside ==
    Program(<<
      Function("main", <<>>, "unit",
        Call("use", <<Output("before"), Call("f", <<>>), Output("after")>>)),
      Function("f", <<>>, "unit",
        Loop(Value(True),
             Branch(Value(True), Block(<<Symbol("y"), Output("in")>>),
                    JsonNull))),
      Use
    >>, Meta("fail_inside"))

\* declarations, a redeclaration and an assignment in one Frame, each read back
DeclareRead ==
    Program(<<
      Function("main", <<>>, "unit",
        Call("use", <<Declare("x", "int", Value(IntV(1))),
                      Declare("y", "int", Value(IntV(2))),
                      Declare("x", "int", Value(IntV(3))),
                      Declare("z", "int", Symbol("x")),
                      Assign("y", Value(IntV(7))),
                      Declare("w", "int", Symbol("y")),
                      Declare("x", "int", Declare("x", "int", Value(True))),
                      Symbol("x")>>)),
      Use
    >>, Meta("declare_read"))

\* a caller whose Loop calls get twice; get returns from inside a Loop and a
\* Branch
ReturnInLoop ==
    Program(<<
      Function("main", <<>>, "unit",
        Call("use", <<Call("caller", <<Value(True), Value(True)>>),
                      Output("end")>>)),
      Function("caller", <<Param(Flags[1]), Param(Flags[2])>>, "unit",
        Loop(Symbol(Flags[1]),
             Call("use", <<Declare("r", "int", Call("get", <<>>)),
                           Output("next"), Chain(2)>>))),
      Function("get", <<>>, "int",
        Loop(Value(True),
             Branch(Value(True), Return(Value(IntV(5))), JsonNull))),
      Use
    >>, Meta("return_in_loop"))

\* nodes that do not have the shape the builders give them
NoElse(cond) ==
    [intent |-> "branch", condition |-> cond, then |-> Output("then")]

MalformedNodes ==
    {NoElse(Value(True)), NoElse(Value(False)),
     [intent |-> "output_text", payload |-> "extra", colour |-> "red"],
     [intent |-> "output_text"],
     [intent |-> "declare", type |-> "int", value |-> Output("rhs")],
     [intent |-> "assign", value |-> Output("rhs")],
     [intent |-> "compare", left |-> Output("l"), right |-> Output("r")],
     [intent |-> "compare", operation |-> "equal", left |-> Output("l")],
     [intent |-> "loop_until_break", condition |-> Value(False)],
     [intent |-> "loop_until_break", condition |-> Value(True)],
     [intent |-> "loop_until_break", body |-> Output("body")],
     [intent |-> "return"],
     [intent |-> "call", target |-> "use"],
     [intent |-> "call", args |-> <<Output("arg")>>],
     [intent |-> "symbol"],
     [intent |-> "value"],
     [intent |-> "block"],
     [intent |-> "jump", target |-> "x"],
     [payload |-> "no intent"],
     JsonNull}

Malformed(n) ==
    Program(<<
      Function("main", <<>>, "unit",
        Call("use", <<Output("before"), n, Output("after")>>)),
      Use
    >>, Meta("malformed"))

Programs ==
    {parse_to_ir_v3, Scenario2, Scenario4, Scenario5, Scenario6,
     NestedReturn, BareReturn, MainReturn, Isolation, ArgOrder, Surplus,
     Deficit, GhostInCallee, CallerOnly, UnknownTag, BadOperator, NoneOrder,
     NoMain, Runaway, LoopReturn, FailInside, DeclareRead, ReturnInLoop}
    \cup {SeqProgram(n) : n \in 0..MaxN}
    \cup {Countdown(k) : k \in 0..MaxK}
    \cup {Malformed(n) : n \in MalformedNodes}

\* ------------------------------------------------------------------------
\* Python values of the build side: builder objects, dicts in insertion
\* order, lists, strings and scalars
\* ------------------------------------------------------------------------
MaxOutputs == 2

PyNone == [t |-> "none"]
PyInt(n) == [t |-> "int", n |-> n]
PyBool(b) == [t |-> "bool", b |-> b]
PyStr(s) == [t |-> "str", s |-> s]
PyList(xs) == [t |-> "list", xs |-> xs]
\* items is the sequence of <<key, value>> pairs in insertion order
PyDict(items) == [t |-> "dict", items |-> items]

\* bool(x) of `if r:` and `x or y`
PyTruthy(v) ==
    CASE v.t = "none" -> FALSE
      [] v.t = "bool" -> v.b
      [] v.t = "int" -> v.n # 0
      [] v.t = "str" -> v.s # ""
      [] v.t = "list" -> v.xs # <<>>
      [] v.t = "dict" -> v.items # <<>>
      [] v.t = "object" -> TRUE

\* instances of the builder classes, as __init__ leaves them
ValueObj(v) == [t |-> "object", cls |-> "Value", value |-> v]
TypedValueObj(vtype, v) ==
    [t |-> "object", cls |-> "TypedValue", vtype |-> vtype, value |-> v]
SymbolObj(name) == [t |-> "object", cls |-> "Symbol", name |-> name]
DeclareObj(name, vtype, v) ==
    [t |-> "object", cls |-> "Declare", name |-> name, vtype |-> vtype,
     value |-> v]
AssignObj(name, v) ==
    [t |-> "object", cls |-> "Assign", name |-> name, value |-> v]
OutputObj(msg) == [t |-> "object", cls |-> "Output", msg |-> msg]
CompareObj(o, l, r) ==
    [t |-> "object", cls |-> "Compare", op |-> o, left |-> l, right |-> r]
BranchObj(cond, then_blk, else_blk) ==
    [t |-> "object", cls |-> "Branch", cond |-> cond, then_blk |-> then_blk,
     else_blk |-> else_blk]
LoopObj(cond, body) ==
    [t |-> "object", cls |-> "Loop", cond |-> cond, body |-> body]
ReturnObj(v) == [t |-> "object", cls |-> "Return", value |-> v]
CallObj(name, args) ==
    [t |-> "object", cls |-> "Call", name |-> name, args |-> args]
BlockObj(actions) == [t |-> "object", cls |-> "Block", actions |-> actions]
FunctionObj(name, args, ret, body) ==
    [t |-> "object", cls |-> "Function", name |-> name, args |-> args,
     ret |-> ret, body |-> body]
\* self.meta = meta or {}
ProgramObj(fns, meta) ==
    [t |-> "object", cls |-> "Program", functions |-> fns,
     meta |-> IF PyTruthy(meta) THEN meta ELSE PyDict(<<>>)]

ParamDict(name) ==
    PyDict(<< <<"name", PyStr(name)>>, <<"type", PyStr("any")>> >>)

\* to_json of every class: the dict it builds, keys in the order written
RECURSIVE to_json(_)
to_json(o) ==
    LET each(xs) == PyList([i \in 1..Len(xs) |-> to_json(xs[i])])
        opt(x) == IF PyTruthy(x) THEN to_json(x) ELSE PyNone
    IN CASE o.cls = "Value" ->
              PyDict(<< <<"intent", PyStr("value")>>, <<"value", o.value>> >>)
         [] o.cls = "TypedValue" ->
              PyDict(<< <<"intent", PyStr("typed_value")>>,
                        <<"type", PyStr(o.vtype)>>, <<"value", o.value>> >>)
         [] o.cls = "Symbol" ->
              PyDict(<< <<"intent", PyStr("symbol")>>,
                        <<"name", PyStr(o.name)>> >>)
         [] o.cls = "Declare" ->
              PyDict(<< <<"intent", PyStr("declare")>>,
                        <<"name", PyStr(o.name)>>, <<"type", PyStr(o.vtype)>>,
                        <<"value", to_json(o.value)>> >>)
         [] o.cls = "Assign" ->
              PyDict(<< <<"intent", PyStr("assign")>>,
                        <<"target", PyStr(o.name)>>,
                        <<"value", to_json(o.value)>> >>)
         [] o.cls = "Output" ->
              PyDict(<< <<"intent", PyStr("output_text")>>,
                        <<"payload", PyStr(o.msg)>> >>)
         [] o.cls = "Compare" ->
              PyDict(<< <<"intent", PyStr("compare")>>,
                        <<"operation", PyStr(o.op)>>,
                        <<"left", to_json(o.left)>>,
                        <<"right", to_json(o.right)>> >>)
         [] o.cls = "Branch" ->
              PyDict(<< <<"intent", PyStr("branch")>>,
                        <<"condition", to_json(o.cond)>>,
                        <<"then", to_json(o.then_blk)>>,
                        <<"else", opt(o.else_blk)>> >>)
         [] o.cls = "Loop" ->
              PyDict(<< <<"intent", PyStr("loop_until_break")>>,
                        <<"condition", to_json(o.cond)>>,
                        <<"body", to_json(o.body)>> >>)
         [] o.cls = "Return" ->
              PyDict(<< <<"intent", PyStr("return")>>,
                        <<"value", opt(o.value)>> >>)
         [] o.cls = "Call" ->
              PyDict(<< <<"intent", PyStr("call")>>,
                        <<"target", PyStr(o.name)>>,
                        <<"args", each(o.args)>> >>)
         [] o.cls = "Block" ->
              PyDict(<< <<"intent", PyStr("block")>>,
                        <<"actions", each(o.actions)>> >>)
         [] o.cls = "Function" ->
              PyDict(<< <<"kind", PyStr("function")>>,
                        <<"name", PyStr(o.name)>>,
                        <<"args", PyList(o.args)>>,
                        <<"return_type", PyStr(o.ret)>>,
                        <<"body", to_json(o.body)>> >>)
         [] o.cls = "Program" ->
              PyDict(<< <<"meta", o.meta>>, <<"functions", each(o.functions)>> >>)

\* ------------------------------------------------------------------------
\* json.dumps and json.load: the document is the sequence of JSON tokens
\* (the white space of indent=2 carries nothing)
\* ------------------------------------------------------------------------
Punct(c) == [tk |-> c, v |-> ""]
StrTok(s) == [tk |-> "str", v |-> s]
NumTok(n) == [tk |-> "num", v |-> n]
LitTok(w) == [tk |-> "lit", v |-> w]

RECURSIVE Join(_, _)
\* the token runs of xs, separated by commas, from the i-th on
Join(xs, i) ==
    IF i > Len(xs) THEN <<>>
    ELSE IF i = Len(xs) THEN xs[i]
    ELSE xs[i] \o <<Punct(",")>> \o Join(xs, i + 1)

RECURSIVE dumps_SkipNull(_)
\* variant: members whose value is None are not written
dumps_SkipNull(v) ==
    CASE v.t = "none" -> <<LitTok("null")>>
      [] v.t = "bool" -> <<LitTok(IF v.b THEN "true" ELSE "false")>>
      [] v.t = "int" -> <<NumTok(v.n)>>
      [] v.t = "str" -> <<StrTok(v.s)>>
      [] v.t = "list" ->
           <<Punct("[")>>
             \o Join([i \in 1..Len(v.xs) |-> dumps_SkipNull(v.xs[i])], 1)
             \o <<Punct("]")>>
      [] v.t = "dict" ->
           LET kept == SelectSeq(v.items, LAMBDA it : it[2] # PyNone) IN
           <<Punct("{")>>
             \o Join([i \in 1..Len(kept) |->
                        <<StrTok(kept[i][1]), Punct(":")>>
                          \o dumps_SkipNull(kept[i][2])], 1)
             \o <<Punct("}")>>

RECURSIVE dumps(_)
dumps(v) ==
    CASE v.t = "none" -> <<LitTok("null")>>
      [] v.t = "bool" -> <<LitTok(IF v.b THEN "true" ELSE "false")>>
      [] v.t = "int" -> <<NumTok(v.n)>>
      [] v.t = "str" -> <<StrTok(v.s)>>
      [] v.t = "list" ->
           <<Punct("[")>>
             \o Join([i \in 1..Len(v.xs) |-> dumps(v.xs[i])], 1)
             \o <<Punct("]")>>
      [] v.t = "dict" ->
           <<Punct("{")>>
             \o Join([i \in 1..Len(v.items) |->
                        <<StrTok(v.items[i][1]), Punct(":")>>
                          \o dumps(v.items[i][2])], 1)
             \o <<Punct("}")>>

\* the decoder reads one value starting at token i and says where it stopped
RECURSIVE ParseValue(_, _)
RECURSIVE ParseMembers(_, _, _)
RECURSIVE ParseElements(_, _, _)

ParseValue(toks, i) ==
    LET tok == toks[i] IN
    CASE tok.tk = "{" -> ParseMembers(toks, i + 1, <<>>)
      [] tok.tk = "[" -> ParseElements(toks, i + 1, <<>>)
      [] tok.tk = "str" -> [v |-> PyStr(tok.v), i |-> i + 1]
      [] tok.tk = "num" -> [v |-> PyInt(tok.v), i |-> i + 1]
      [] tok.tk = "lit" ->
           [v |-> CASE tok.v = "true" -> PyBool(TRUE)
                    [] tok.v = "false" -> PyBool(FALSE)
                    [] tok.v = "null" -> PyNone,
            i |-> i + 1]

\* toks[i] starts a member or closes the object
ParseMembers(toks, i, acc) ==
    IF toks[i].tk = "}" THEN [v |-> PyDict(acc), i |-> i + 1]
    ELSE LET key == toks[i].v
             val == ParseValue(toks, i + 2)
             items == Append(acc, <<key, val.v>>)
         IN IF toks[val.i].tk = ","
            THEN ParseMembers(toks, val.i + 1, items)
            ELSE [v |-> PyDict(items), i |-> val.i + 1]

\* toks[i] starts an element or closes the array
ParseElements(toks, i, acc) ==
    IF toks[i].tk = "]" THEN [v |-> PyList(acc), i |-> i + 1]
    ELSE LET val == ParseValue(toks, i)
             xs == Append(acc, val.v)
         IN IF toks[val.i].tk = ","
            THEN ParseElements(toks, val.i + 1, xs)
            ELSE [v |-> PyList(xs), i |-> val.i + 1]

loads(doc) == ParseValue(doc, 1).v

\* ------------------------------------------------------------------------
\* Backend emitters
\* ------------------------------------------------------------------------
\* n.get(key): the value of the key, None when the dict has no such key
Get(n, key) ==
    LET hits == {i \in 1..Len(n.items) : n.items[i][1] = key}
    IN IF hits = {} THEN PyNone ELSE n.items[CHOOSE i \in hits : TRUE][2]

Children(n) ==
    CASE n.t = "dict" -> [i \in 1..Len(n.items) |-> n.items[i][2]]
      [] n.t = "list" -> n.xs
      [] OTHER -> <<>>

DefaultMsg == PyStr("Hello from IR v3")

RECURSIVE dfs(_)
RECURSIVE dfsFrom(_, _)

\* for v in n.values(): r = dfs(v); if r: return r
dfsFrom(xs, i) ==
    IF i > Len(xs) THEN PyNone
    ELSE LET r == dfs(xs[i])
         IN IF PyTruthy(r) THEN r ELSE dfsFrom(xs, i + 1)

dfs(n) ==
    IF n.t = "dict" /\ Get(n, "intent") = PyStr("output_text")
    THEN Get(n, "payload")
    ELSE dfsFrom(Children(n), 1)

\* dfs(ir) or "Hello from IR v3"; extract_first_print is the same function
extract_msg(ir_json) ==
    LET r == dfs(ir_json) IN IF PyTruthy(r) THEN r ELSE DefaultMsg

\* len(msg) for the strings the model uses
StrLen(msg) ==
    CASE msg = PyStr("") -> 0
      [] msg \in {PyStr("a"), PyStr("b")} -> 1
      [] msg = PyStr("loop") -> 4
      [] msg = PyStr("looping") -> 7
      [] msg = PyStr("Hello from IR v3") -> 16
      [] msg = PyStr("x is greater than 5") -> 19

\* the four files emit_backends writes: each is a fixed template around msg
emit_backends(ir_obj) ==
    LET msg == extract_msg(to_json(ir_obj))
    IN [path \in {"llvm/main.c", "jvm/Main.java", "dotnet/Program.cs",
                  "native/main.asm"} |->
          IF path = "native/main.asm"
          THEN [template |-> path, msg |-> msg, rdx |-> StrLen(msg) + 1]
          ELSE [template |-> path, msg |-> msg]]

\* ------------------------------------------------------------------------
\* The loaded document as MeaningVM walks it: dicts are read by key, lists
\* by position
\* ------------------------------------------------------------------------
RECURSIVE Walked(_)
Walked(v) ==
    CASE v.t = "none" -> JsonNull
      [] v.t = "bool" -> BoolV(v.b)
      [] v.t = "int" -> IntV(v.n)
      [] v.t = "str" -> v.s
      [] v.t = "list" -> [i \in 1..Len(v.xs) |-> Walked(v.xs[i])]
      [] v.t = "dict" ->
           LET literal == Get(v, "intent") \in {PyStr("value"),
                                                PyStr("typed_value")}
           IN [key \in {v.items[i][1] : i \in 1..Len(v.items)} |->
                 LET last == CHOOSE i \in 1..Len(v.items) :
                                /\ v.items[i][1] = key
                                /\ \A j \in 1..Len(v.items) :
                                      v.items[j][1] = key => j <= i
                     x == v.items[last][2]
                 IN IF literal /\ key = "value" /\ x = PyNone
                    THEN None
                    ELSE Walked(x)]

\* ------------------------------------------------------------------------
\* Trees handed to the build side
\* ------------------------------------------------------------------------
Texts == {"", "a", "b"}

PayloadSeqs == UNION {[1..n -> Texts] : n \in 0..MaxOutputs}

SourceMeta == PyDict(<< <<"source", PyStr("meaning-ir-v3")>> >>)

MainProgram(body, meta) ==
    ProgramObj(<<FunctionObj("main", <<>>, "unit", body)>>, meta)

\* the tree of parse_to_ir_v3 / parse_to_meaning_ir_v3, for any two payloads
StubTree(first, second) ==
    MainProgram(
      BlockObj(<<DeclareObj("x", "int", ValueObj(PyInt(10))),
                 BranchObj(CompareObj("greater_than", SymbolObj("x"),
                                      ValueObj(PyInt(5))),
                           BlockObj(<<OutputObj(first)>>), PyNone),
                 LoopObj(ValueObj(PyBool(TRUE)),
                         BlockObj(<<OutputObj(second), ReturnObj(PyNone)>>))
               >>),
      SourceMeta)

\* a tree with an instance of every builder class, both forms of Branch and
\* Return, all scalar kinds, an empty Block and no meta
EveryClass ==
    ProgramObj(<<
      FunctionObj("main", <<>>, "unit",
        BlockObj(<<DeclareObj("r", "bool",
                     CallObj("pick", <<ValueObj(PyNone),
                                       TypedValueObj("int", PyInt(0)),
                                       ValueObj(PyStr(""))>>)),
                   AssignObj("r", ValueObj(PyBool(FALSE))),
                   BlockObj(<<>>),
                   OutputObj("a")>>)),
      FunctionObj("pick", <<ParamDict("p"), ParamDict("q"), ParamDict("s")>>,
        "bool",
        BranchObj(CompareObj("equal", SymbolObj("p"), SymbolObj("q")),
                  ReturnObj(ValueObj(PyBool(TRUE))),
                  LoopObj(SymbolObj("s"), ReturnObj(PyNone))))
    >>, PyNone)

Trees ==
    {MainProgram(BlockObj([i \in 1..Len(ps) |-> OutputObj(ps[i])]), SourceMeta) :
        ps \in PayloadSeqs}
    \cup {StubTree(p, q) : p, q \in Texts}
    \cup {StubTree("x is greater than 5", "loop"),
          StubTree("x is greater than 5", "looping"), EveryClass}

\* ------------------------------------------------------------------------
\* Evaluator state
\* ------------------------------------------------------------------------
VARIABLES
    vm,         \* which copy of MeaningVM runs: "engine" or "all_in_one"
    ir,         \* the loaded Program encoding
    functions,  \* self.functions
    stack,      \* self.stack, a sequence of Frame.env mappings
    out,        \* lines written by print
    ctl,        \* what exec does next: evaluate a node, hand back a value,
                \* or propagate VMReturn
    kont,       \* the exec activations waiting for a nested exec, innermost last
    status,     \* "constructed", "running", "done", "failed", "escaped"
    err,        \* the exception that ended the run
    op,         \* the dispatch arm or resumption that ran last
    tree,       \* the builder tree the build mode works on
    files,      \* the files of the out directory, by path
    log,        \* what each step of this run left: output, frames, status
    ref         \* the log of the run of the other copy on the same Program

vars ==
    <<vm, ir, functions, stack, out, ctl, kont, status, err, op, tree, files,
      log, ref>>

\* one more entry of the log
Logged(o, st, s) ==
    /\ log' = Append(log, [out |-> o, stack |-> st, status |-> s])
    /\ ref' = ref

VMs == {"engine", "all_in_one"}

\* {fn["name"]: fn for fn in ir_json["functions"]}: a later duplicate wins
FunctionTable(program) ==
    LET fns == program.functions
        names == {fns[i].name : i \in 1..Len(fns)}
        lastIdx(nm) == CHOOSE i \in 1..Len(fns) :
                          /\ fns[i].name = nm
                          /\ \A j \in 1..Len(fns) : fns[j].name = nm => j <= i
    IN [nm \in names |-> fns[lastIdx(nm)]]

\* Frame(): env = {}
Frame == [x \in {} |-> None]

\* self.env: the env of the Frame on top of the stack
env == stack[Len(stack)]

\* variant: a name that is already bound keeps its first value
Bind_KeepFirst(e, name, v) == e @@ (name :> v)

\* self.env[name] = v
Bind(e, name, v) == (name :> v) @@ e

\* variant: the write goes to the lowest Frame that already binds the name
SetEnv_Outer(name, v) ==
    LET holders == {i \in 1..Len(stack) : name \in DOMAIN stack[i]}
        d == IF holders = {} THEN Len(stack)
             ELSE CHOOSE i \in holders : \A j \in holders : i <= j
    IN [stack EXCEPT ![d] = Bind(stack[d], name, v)]

\* self.env[name] = v, as a new stack
SetEnv(name, v) == [stack EXCEPT ![Len(stack)] = Bind(env, name, v)]

\* self.env[name]: the lookup sees the top Frame only
Bound(name) == name \in DOMAIN env
Lookup(name) == env[name]

\* control
Eval(n) == [mode |-> "exec", node |-> n, val |-> None]
Yield(v) == [mode |-> "value", node |-> JsonNull, val |-> v]
Raise(v) == [mode |-> "raise", node |-> JsonNull, val |-> v]

\* exceptions other than VMReturn
NoError == [exc |-> "", site |-> ""]
KeyErrorFunctions == [exc |-> "KeyError", site |-> "functions"]
KeyErrorEnv == [exc |-> "KeyError", site |-> "env"]
IndexErrorArgs == [exc |-> "IndexError", site |-> "args"]
TypeErrorCompare == [exc |-> "TypeError", site |-> "compare"]
UnknownIntent == [exc |-> "Exception", site |-> "Unknown intent"]
UnknownCompareOp == [exc |-> "Exception", site |-> "Unknown compare op"]

\* node[field] on a node that lacks the field, and node.get on None
KeyErrorNode == [exc |-> "KeyError", site |-> "node"]
AttributeErrorNode == [exc |-> "AttributeError", site |-> "node.get"]

\* an exec activation waiting for a nested exec
Activation(kind, n, where) ==
    [k |-> kind, node |-> n, at |-> where, i |-> 0, vals |-> <<>>,
     nc |-> 0, nb |-> 0, depth |-> Len(stack), saved |-> Frame]

Top == kont[Len(kont)]
Rest == SubSeq(kont, 1, Len(kont) - 1)
Push(a) == Append(kont, a)
Replace(a) == Append(Rest, a)

Executing(tag) ==
    /\ status = "running"
    /\ ctl.mode = "exec"
    /\ "intent" \in DOMAIN ctl.node
    /\ ctl.node.intent = tag

Resuming(kind, where) ==
    /\ status = "running"
    /\ ctl.mode = "value"
    /\ kont # <<>>
    /\ Top.k = kind
    /\ Top.at = where

\* one step of the run that leaves it running
Step(name, c, kn, st, o) ==
    /\ op' = name
    /\ ctl' = c
    /\ kont' = kn
    /\ stack' = st
    /\ out' = o
    /\ Logged(o, st, status)
    /\ UNCHANGED <<tree, files, vm, ir, functions, status, err>>

\* variant: the except clause of the nearest Call takes any exception, so the
\* call hands back None and the caller goes on
Fail_CaughtAtCall(name, e, st) ==
    LET calls == {j \in 1..Len(kont) :
                     kont[j].k = "call" /\ kont[j].at = "body"}
    IN IF calls = {}
       THEN /\ op' = name
            /\ status' = "failed"
            /\ err' = e
            /\ stack' = st
            /\ Logged(out, st, "failed")
            /\ UNCHANGED <<tree, files, vm, ir, functions, out, ctl, kont>>
       ELSE LET j == CHOOSE h \in calls : \A g \in calls : g <= h
            IN Step(name, Yield(None), SubSeq(kont, 1, j - 1),
                    SubSeq(stack, 1, kont[j].depth), out)

\* an exception other than VMReturn leaves exec: nothing catches it
Fail(name, e, st) ==
    /\ op' = name
    /\ status' = "failed"
    /\ err' = e
    /\ stack' = st
    /\ Logged(out, st, "failed")
    /\ UNCHANGED <<tree, files, vm, ir, functions, out, ctl, kont>>

\* node[field]: the arm goes on when the node carries the field and raises
\* KeyError otherwise
Need(name, n, field, arm) ==
    IF field \in DOMAIN n THEN arm ELSE Fail(name, KeyErrorNode, stack)

Init ==
    /\ vm \in VMs
    /\ ir \in Programs
    /\ functions = FunctionTable(ir)
    /\ stack = <<>>
    /\ out = <<>>
    /\ ctl = Yield(None)
    /\ kont = <<>>
    /\ status = "constructed"
    /\ err = NoError
    /\ op = "__init__"
    /\ tree = PyNone
    /\ files = <<>>
    /\ log = <<>>
    /\ ref = <<>>

\* run(): push, look up main, exec its body
Run ==
    /\ status = "constructed"
    /\ IF "main" \in DOMAIN functions
       THEN /\ status' = "running"
            /\ ctl' = Eval(functions["main"].body)
            /\ err' = err
       ELSE /\ status' = "failed"
            /\ ctl' = ctl
            /\ err' = KeyErrorFunctions
    /\ stack' = Append(stack, Frame)
    /\ op' = "Run"
    /\ Logged(out, Append(stack, Frame),
              IF "main" \in DOMAIN functions THEN "running" ELSE "failed")
    /\ UNCHANGED <<tree, files, vm, ir, functions, out, kont>>

\* ------------------------------------------------------------------------
\* exec: block
\* ------------------------------------------------------------------------
\* meaning_engine.py: `for a in actions: self.exec(a); return` leaves exec
\* after the first action; with no action the loop body never runs and the
\* dispatch falls through every later test to the final raise
ExecBlock ==
    /\ Executing("block")
    /\ LET node == ctl.node IN
       Need("ExecBlock", node, "actions",
         IF node.actions = <<>>
         THEN IF vm = "engine"
              THEN Fail("ExecBlock", UnknownIntent, stack)
              ELSE Step("ExecBlock", Yield(None), kont, stack, out)
         ELSE Step("ExecBlock", Eval(node.actions[1]),
                   Push([Activation("block", node, "actions") EXCEPT !.i = 1]),
                   stack, out))

\* an action of the Block handed back its value
BlockNext ==
    /\ Resuming("block", "actions")
    /\ IF vm = "engine" \/ Top.i >= Len(Top.node.actions)
       THEN Step("BlockNext", Yield(None), Rest, stack, out)
       ELSE Step("BlockNext", Eval(Top.node.actions[Top.i + 1]),
                 Replace([Top EXCEPT !.i = Top.i + 1]), stack, out)

\* ------------------------------------------------------------------------
\* exec: declare, assign, symbol, value, typed_value, output_text
\* ------------------------------------------------------------------------
ExecDeclare ==
    /\ Executing("declare")
    /\ Need("ExecDeclare", ctl.node, "value",
         Step("ExecDeclare", Eval(ctl.node.value),
              Push(Activation("declare", ctl.node, "value")), stack, out))

\* the subscript node["name"] is evaluated after the value
DeclareBind ==
    /\ Resuming("declare", "value")
    /\ Need("DeclareBind", Top.node, "name",
         Step("DeclareBind", Yield(None), Rest,
              SetEnv(Top.node.name, ctl.val), out))

ExecAssign ==
    /\ Executing("assign")
    /\ Need("ExecAssign", ctl.node, "value",
         Step("ExecAssign", Eval(ctl.node.value),
              Push(Activation("assign", ctl.node, "value")), stack, out))

AssignBind ==
    /\ Resuming("assign", "value")
    /\ Need("AssignBind", Top.node, "target",
         Step("AssignBind", Yield(None), Rest,
              SetEnv(Top.node.target, ctl.val), out))

\* variant: the lookup falls back to the Frames of the callers
ExecSymbol_Chain ==
    /\ Executing("symbol")
    /\ Need("ExecSymbol", ctl.node, "name",
         LET holders ==
               {i \in 1..Len(stack) : ctl.node.name \in DOMAIN stack[i]}
         IN IF holders # {}
            THEN Step("ExecSymbol",
                      Yield(stack[CHOOSE i \in holders :
                                    \A j \in holders : j <= i][ctl.node.name]),
                      kont, stack, out)
            ELSE Fail("ExecSymbol", KeyErrorEnv, stack))

ExecSymbol ==
    /\ Executing("symbol")
    /\ Need("ExecSymbol", ctl.node, "name",
         IF Bound(ctl.node.name)
         THEN Step("ExecSymbol", Yield(Lookup(ctl.node.name)), kont, stack, out)
         ELSE Fail("ExecSymbol", KeyErrorEnv, stack))

ExecValue ==
    /\ Executing("value")
    /\ Need("ExecValue", ctl.node, "value",
         Step("ExecValue", Yield(ctl.node.value), kont, stack, out))

ExecTypedValue ==
    /\ Executing("typed_value")
    /\ Need("ExecTypedValue", ctl.node, "value",
         Step("ExecTypedValue", Yield(ctl.node.value), kont, stack, out))

ExecOutput ==
    /\ Executing("output_text")
    /\ Need("ExecOutput", ctl.node, "payload",
         Step("ExecOutput", Yield(None), kont, stack,
              Append(out, ctl.node.payload)))

\* ------------------------------------------------------------------------
\* exec: compare
\* ------------------------------------------------------------------------
ExecCompare ==
    /\ Executing("compare")
    /\ Need("ExecCompare", ctl.node, "left",
         Step("ExecCompare", Eval(ctl.node.left),
              Push(Activation("compare", ctl.node, "left")), stack, out))

CompareLeft ==
    /\ Resuming("compare", "left")
    /\ Need("CompareLeft", Top.node, "right",
         Step("CompareLeft", Eval(Top.node.right),
              Replace([Top EXCEPT !.at = "right", !.vals = <<ctl.val>>]),
              stack, out))

\* an operation outside the three known ones: meaning_engine.py falls
\* through to the final raise, the all-in-one copy raises in the compare arm
CompareApply ==
    /\ Resuming("compare", "right")
    /\ Need("CompareApply", Top.node, "operation",
         LET l == Top.vals[1]
             r == ctl.val
             o == Top.node.operation
         IN CASE o \in {"greater_than", "less_than"} /\ ~Orderable(l, r) ->
                   Fail("CompareApply", TypeErrorCompare, stack)
              [] o = "greater_than" /\ Orderable(l, r) ->
                   Step("CompareApply", Yield(BoolV(l.n > r.n)), Rest,
                        stack, out)
              [] o = "less_than" /\ Orderable(l, r) ->
                   Step("CompareApply", Yield(BoolV(l.n < r.n)), Rest,
                        stack, out)
              [] o = "equal" ->
                   Step("CompareApply", Yield(BoolV(PyEq(l, r))), Rest,
                        stack, out)
              [] OTHER ->
                   Fail("CompareApply",
                        IF vm = "engine" THEN UnknownIntent
                        ELSE UnknownCompareOp,
                        stack))

\* ------------------------------------------------------------------------
\* exec: branch
\* ------------------------------------------------------------------------
ExecBranch ==
    /\ Executing("branch")
    /\ Need("ExecBranch", ctl.node, "condition",
         Step("ExecBranch", Eval(ctl.node.condition),
              Push(Activation("branch", ctl.node, "condition")), stack, out))

\* node["then"] is read only when the condition is truthy and node["else"]
\* only when it is not
BranchCond ==
    /\ Resuming("branch", "condition")
    /\ IF Truthy(ctl.val)
       THEN Need("BranchCond", Top.node, "then",
              Step("BranchCond", Eval(Top.node.then),
                   Replace([Top EXCEPT !.at = "then"]), stack, out))
       ELSE Need("BranchCond", Top.node, "else",
              IF IsPresent(Top.node.else)
              THEN Step("BranchCond", Eval(Top.node.else),
                        Replace([Top EXCEPT !.at = "else"]), stack, out)
              ELSE Step("BranchCond", Yield(None), Rest, stack, out))

\* variant: then does not return, so a present else runs after it
BranchForward_FallThrough ==
    /\ \/ Resuming("branch", "then")
       \/ Resuming("branch", "else")
    /\ IF /\ Top.at = "then"
          /\ "else" \in DOMAIN Top.node
          /\ IsPresent(Top.node.else)
       THEN Step("BranchForward", Eval(Top.node.else),
                 Replace([Top EXCEPT !.at = "else"]), stack, out)
       ELSE Step("BranchForward", Yield(ctl.val), Rest, stack, out)

\* return self.exec(node["then"]) / return self.exec(node["else"])
BranchForward ==
    /\ \/ Resuming("branch", "then")
       \/ Resuming("branch", "else")
    /\ Step("BranchForward", Yield(ctl.val), Rest, stack, out)

\* ------------------------------------------------------------------------
\* exec: loop_until_break
\* ------------------------------------------------------------------------
\* nc and nb count the evaluations of condition and body of this activation
ExecLoop ==
    /\ Executing("loop_until_break")
    /\ Need("ExecLoop", ctl.node, "condition",
         Step("ExecLoop", Eval(ctl.node.condition),
              Push([Activation("loop", ctl.node, "condition") EXCEPT !.nc = 1]),
              stack, out))

LoopCond ==
    /\ Resuming("loop", "condition")
    /\ IF Truthy(ctl.val)
       THEN Need("LoopCond", Top.node, "body",
              Step("LoopCond", Eval(Top.node.body),
                   Replace([Top EXCEPT !.at = "body", !.nb = Top.nb + 1]),
                   stack, out))
       ELSE Step("LoopCond", Yield(None), Rest, stack, out)

\* variant: the condition is evaluated once and its value kept
LoopBody_CachedCond ==
    /\ Resuming("loop", "body")
    /\ Top.nb < MaxIter
    /\ Step("LoopBody", Eval(Top.node.body),
            Replace([Top EXCEPT !.nb = Top.nb + 1]), stack, out)

LoopBody ==
    /\ Resuming("loop", "body")
    /\ Top.nc < MaxIter
    /\ Step("LoopBody", Eval(Top.node.condition),
            Replace([Top EXCEPT !.at = "condition", !.nc = Top.nc + 1]),
            stack, out)

\* ------------------------------------------------------------------------
\* exec: return
\* ------------------------------------------------------------------------
ExecReturn ==
    /\ Executing("return")
    /\ Need("ExecReturn", ctl.node, "value",
         IF IsPresent(ctl.node.value)
         THEN Step("ExecReturn", Eval(ctl.node.value),
                   Push(Activation("return", ctl.node, "value")), stack, out)
         ELSE Step("ExecReturn", Raise(None), kont, stack, out))

\* raise VMReturn(val)
ReturnRaise ==
    /\ Resuming("return", "value")
    /\ Step("ReturnRaise", Raise(ctl.val), Rest, stack, out)

\* ------------------------------------------------------------------------
\* exec: call
\* ------------------------------------------------------------------------
\* for i, arg in enumerate(fn["args"]): self.env[arg["name"]] = args[i]
\* run over the first n parameters
\* variant: parameters take the arguments in reverse order
BindParams_Reversed(params, args, n) ==
    [x \in {params[i].name : i \in 1..n} |->
        LET i == CHOOSE j \in 1..n : params[j].name = x
        IN args[Len(args) + 1 - i]]

RECURSIVE BindParams(_, _, _)
BindParams(params, args, n) ==
    IF n = 0 THEN Frame
    ELSE Bind(BindParams(params, args, n - 1), params[n].name, args[n])

Min(a, b) == IF a < b THEN a ELSE b

\* all arguments are evaluated: push the callee's Frame, bind the parameters
\* and start the body inside the try; args[i] raises IndexError at the first
\* parameter that has no argument
CallEnter(node, args, rest) ==
    LET fn == functions[node.target]
        params == fn.args
        bound == BindParams(params, args, Min(Len(params), Len(args)))
    IN /\ Len(stack) < MaxStack
       /\ IF Len(args) < Len(params)
          THEN Fail("CallEnter", IndexErrorArgs, Append(stack, bound))
          ELSE Step("CallEnter", Eval(fn.body),
                    Append(rest, [Activation("call", node, "body") EXCEPT
                                     !.vals = args, !.saved = env]),
                    Append(stack, bound), out)

\* variant: the callee's Frame is pushed before the target is looked up
ExecCall_PushFirst ==
    /\ Executing("call")
    /\ LET node == ctl.node IN
       Need("ExecCall", node, "target",
         IF node.target \notin DOMAIN functions
         THEN Fail("ExecCall", KeyErrorFunctions, Append(stack, Frame))
         ELSE Need("ExecCall", node, "args",
                IF node.args = <<>>
                THEN CallEnter(node, <<>>, kont)
                ELSE Step("ExecCall", Eval(node.args[1]),
                          Push([Activation("call", node, "args") EXCEPT
                                   !.i = 1]),
                          stack, out)))

\* fn = self.functions[target] comes first, then the arguments left to right
ExecCall ==
    /\ Executing("call")
    /\ LET node == ctl.node IN
       Need("ExecCall", node, "target",
         IF node.target \notin DOMAIN functions
         THEN Fail("ExecCall", KeyErrorFunctions, stack)
         ELSE Need("ExecCall", node, "args",
                IF node.args = <<>>
                THEN CallEnter(node, <<>>, kont)
                ELSE Step("ExecCall", Eval(node.args[1]),
                          Push([Activation("call", node, "args") EXCEPT
                                   !.i = 1]),
                          stack, out)))

\* an argument handed back its value
CallArg ==
    /\ Resuming("call", "args")
    /\ LET args == Append(Top.vals, ctl.val) IN
       IF Top.i < Len(Top.node.args)
       THEN Step("CallArg", Eval(Top.node.args[Top.i + 1]),
                 Replace([Top EXCEPT !.i = Top.i + 1, !.vals = args]),
                 stack, out)
       ELSE CallEnter(Top.node, args, Rest)

Pop == SubSeq(stack, 1, Len(stack) - 1)

\* variant: a body that completes without VMReturn leaves its Frame pushed
CallReturn_NoPop ==
    /\ Resuming("call", "body")
    /\ Step("CallReturn", Yield(None), Rest, stack, out)

\* the body completed without VMReturn: self.pop(); return
CallReturn ==
    /\ Resuming("call", "body")
    /\ Step("CallReturn", Yield(None), Rest, Pop, out)

Raising ==
    /\ status = "running"
    /\ ctl.mode = "raise"

\* variant: the Frame is popped but VMReturn goes on to the caller
CallCatch_Rethrow ==
    /\ Raising
    /\ kont # <<>>
    /\ Top.k = "call" /\ Top.at = "body"
    /\ Step("CallCatch", ctl, Rest, Pop, out)

\* except VMReturn as ret: self.pop(); return ret.value
CallCatch ==
    /\ Raising
    /\ kont # <<>>
    /\ Top.k = "call" /\ Top.at = "body"
    /\ Step("CallCatch", Yield(ctl.val), Rest, Pop, out)

\* variant: a Loop takes VMReturn as a break
Unwind_LoopBreaks ==
    /\ Raising
    /\ kont # <<>>
    /\ ~(Top.k = "call" /\ Top.at = "body")
    /\ IF Top.k = "loop"
       THEN Step("Unwind", Yield(None), Rest, stack, out)
       ELSE Step("Unwind", ctl, Rest, stack, out)

\* VMReturn leaves an exec activation that has no handler for it
Unwind ==
    /\ Raising
    /\ kont # <<>>
    /\ ~(Top.k = "call" /\ Top.at = "body")
    /\ Step("Unwind", ctl, Rest, stack, out)

\* VMReturn leaves exec(main["body"]): run() has no handler either
Escape ==
    /\ Raising
    /\ kont = <<>>
    /\ op' = "Escape"
    /\ status' = "escaped"
    /\ Logged(out, stack, "escaped")
    /\ UNCHANGED <<tree, files, vm, ir, functions, stack, out, ctl, kont, err>>

\* exec(main["body"]) handed back its value: run() ends
Finish ==
    /\ status = "running"
    /\ ctl.mode = "value"
    /\ kont = <<>>
    /\ op' = "Finish"
    /\ status' = "done"
    /\ Logged(out, stack, "done")
    /\ UNCHANGED <<tree, files, vm, ir, functions, stack, out, ctl, kont, err>>

\* ------------------------------------------------------------------------
\* exec: no arm matched
\* ------------------------------------------------------------------------
KnownIntents ==
    {"block", "declare", "assign", "symbol", "value", "typed_value",
     "output_text", "compare", "branch", "loop_until_break", "return", "call"}

\* exec(None) fails on node.get; a dict without a known intent reaches the
\* final raise
ExecUnknown ==
    /\ status = "running"
    /\ ctl.mode = "exec"
    /\ IF "intent" \in DOMAIN ctl.node
       THEN ctl.node.intent \notin KnownIntents
       ELSE TRUE
    /\ Fail("ExecUnknown",
            IF ctl.node = JsonNull THEN AttributeErrorNode ELSE UnknownIntent,
            stack)

\* the fields each to_json writes for its intent
Fields(tag) ==
    CASE tag = "value" -> {"intent", "value"}
      [] tag = "typed_value" -> {"intent", "type", "value"}
      [] tag = "symbol" -> {"intent", "name"}
      [] tag = "declare" -> {"intent", "name", "type", "value"}
      [] tag = "assign" -> {"intent", "target", "value"}
      [] tag = "output_text" -> {"intent", "payload"}
      [] tag = "compare" -> {"intent", "operation", "left", "right"}
      [] tag = "branch" -> {"intent", "condition", "then", "else"}
      [] tag = "loop_until_break" -> {"intent", "condition", "body"}
      [] tag = "return" -> {"intent", "value"}
      [] tag = "call" -> {"intent", "target", "args"}
      [] tag = "block" -> {"intent", "actions"}

\* a node as a builder encodes it: a known intent and exactly its fields
WellFormed(n) ==
    /\ "intent" \in DOMAIN n
    /\ n.intent \in KnownIntents
    /\ DOMAIN n = Fields(n.intent)

Next ==
    \/ Run
    \/ ExecBlock \/ BlockNext
    \/ ExecDeclare \/ DeclareBind
    \/ ExecAssign \/ AssignBind
    \/ ExecSymbol \/ ExecValue \/ ExecTypedValue \/ ExecOutput
    \/ ExecCompare \/ CompareLeft \/ CompareApply
    \/ ExecBranch \/ BranchCond \/ BranchForward
    \/ ExecLoop \/ LoopCond \/ LoopBody
    \/ ExecReturn \/ ReturnRaise
    \/ ExecCall \/ CallArg \/ CallReturn \/ CallCatch
    \/ Unwind \/ Escape \/ Finish
    \/ ExecUnknown

Spec == Init /\ [][Next]_vars

\* ------------------------------------------------------------------------
\* Build mode and the loading half of execute mode
\* ------------------------------------------------------------------------
InitBuild ==
    /\ vm \in VMs
    /\ tree \in Trees
    /\ files = <<>>
    /\ ir = JsonNull
    /\ functions = <<>>
    /\ stack = <<>>
    /\ out = <<>>
    /\ ctl = Yield(None)
    /\ kont = <<>>
    /\ status = "idle"
    /\ err = NoError
    /\ op = ""
    /\ log = <<>>
    /\ ref = <<>>

\* transpile: write ir.json, then emit_backends
Transpile ==
    /\ status = "idle"
    /\ files' = ("ir.json" :> dumps(to_json(tree))) @@ emit_backends(tree)
    /\ status' = "transpiled"
    /\ op' = "transpile"
    /\ UNCHANGED <<tree, vm, ir, functions, stack, out, ctl, kont, err, log,
                   ref>>

\* run_vm: ir = json.load(open(ir_path)); vm = MeaningVM(ir)
LoadIr ==
    /\ status = "transpiled"
    /\ vm = "engine"
    /\ ir' = Walked(loads(files["ir.json"]))
    /\ functions' = FunctionTable(ir')
    /\ status' = "constructed"
    /\ op' = "run_vm"
    /\ UNCHANGED <<tree, files, vm, stack, out, ctl, kont, err, log, ref>>

NextBuild == Transpile \/ LoadIr

SpecBuild == InitBuild /\ [][NextBuild]_vars

\* ------------------------------------------------------------------------
\* The two copies of MeaningVM run one after the other on one Program
\* ------------------------------------------------------------------------
InitBoth ==
    /\ Init
    /\ vm = "engine"

\* the run of the engine copy is over: MeaningVM(ir) of the all-in-one copy
\* is constructed on the same Program, and the log of the first run is kept
Switch ==
    /\ vm = "engine"
    /\ status \in {"done", "failed", "escaped"}
    /\ vm' = "all_in_one"
    /\ ref' = log
    /\ log' = <<>>
    /\ stack' = <<>>
    /\ out' = <<>>
    /\ ctl' = Yield(None)
    /\ kont' = <<>>
    /\ status' = "constructed"
    /\ err' = NoError
    /\ op' = "__init__"
    /\ UNCHANGED <<ir, functions, tree, files>>

NextBoth == Next \/ Switch

SpecBoth == InitBoth /\ [][NextBoth]_vars

TypeOK ==
    /\ vm \in VMs
    /\ status \in {"idle", "transpiled", "constructed", "running", "done",
                   "failed", "escaped"}
    /\ ctl.mode \in {"exec", "value", "raise"}
    /\ Len(stack) <= MaxStack

\* ------------------------------------------------------------------------
\* Properties
\* ------------------------------------------------------------------------
TopAfter == kont'[Len(kont')]

\* some callee body is running: VMReturn has a Call boundary to stop at
InCall == \E j \in 1..Len(kont) : kont[j].k = "call" /\ kont[j].at = "body"

AtCallBoundary == kont # <<>> /\ Top.k = "call" /\ Top.at = "body"

\* C1: in meaning_engine.py, when an action of a Block hands back normally
\* and actions remain, the next action of that Block is evaluated next in the
\* same Frame; so Branch(false) without else followed by an Output in one
\* Block ends with exactly the output of that Output.
C1_SequentialBlock ==
    [][vm = "engine" =>
        /\ (Resuming("block", "actions") /\ Top.i < Len(Top.node.actions)
              => /\ ctl' = Eval(Top.node.actions[Top.i + 1])
                 /\ stack' = stack)
        /\ (ir = Scenario4 /\ status' = "done" => out' = <<"after">>)]_vars

\* C2: a Return executed while a callee body runs raises the value of its
\* value expression (None without one); from then on every step only leaves
\* one activation, without output or binding, until the Call boundary is
\* reached, and there the Call hands back the carried value and pops the
\* callee's Frame.
C2_ReturnStopsCall ==
    [][/\ (Executing("return") /\ WellFormed(ctl.node)
                /\ ~IsPresent(ctl.node.value)
             => ctl' = Raise(None) /\ kont' = kont)
       /\ (Resuming("return", "value")
             => ctl' = Raise(ctl.val) /\ kont' = Rest)
       /\ (Raising /\ InCall
             => /\ status' = "running"
                /\ out' = out
                /\ kont' = Rest
                /\ IF AtCallBoundary
                   THEN ctl' = Yield(ctl.val) /\ stack' = Pop
                   ELSE ctl' = ctl /\ stack' = stack)]_vars

\* a Call has just handed back the 5 returned from below Block/Loop/Branch
\* /Block, and none of the siblings after the Return has written anything
C2_Witness ==
    /\ op = "CallCatch"
    /\ ir = NestedReturn
    /\ ctl = Yield(IntV(5))
    /\ out = <<>>

\* C3: VMReturn never leaves run(): a Return in main's body outside any Call
\* ends the run normally.
C3_MainReturnCaught == status # "escaped"

\* every Loop activation has evaluated its condition once more than its body
\* while the condition is being evaluated, and as often as its body while the
\* body is being evaluated
LoopCounts ==
    \A j \in 1..Len(kont) :
        kont[j].k = "loop" =>
            /\ kont[j].at = "condition" => kont[j].nc = kont[j].nb + 1
            /\ kont[j].at = "body" => kont[j].nc = kont[j].nb /\ kont[j].nb > 0

\* C4: a Loop starts with its condition; a truthy condition is followed by
\* the body, the body by the condition again, and the first falsy condition
\* ends the Loop with no value; so k truthy evaluations make k body
\* evaluations and k + 1 condition evaluations (count(f1..fk) writes k lines).
C4_LoopReevaluates ==
    [][/\ LoopCounts'
       /\ (Executing("loop_until_break") /\ WellFormed(ctl.node)
             => /\ ctl' = Eval(ctl.node.condition)
                /\ TopAfter.k = "loop" /\ TopAfter.nc = 1 /\ TopAfter.nb = 0)
       /\ (Resuming("loop", "condition") /\ WellFormed(Top.node)
                /\ Truthy(ctl.val)
             => /\ ctl' = Eval(Top.node.body)
                /\ TopAfter = [Top EXCEPT !.at = "body", !.nb = Top.nb + 1])
       /\ (Resuming("loop", "body")
             => /\ ctl' = Eval(Top.node.condition)
                /\ TopAfter = [Top EXCEPT !.at = "condition",
                                          !.nc = Top.nc + 1])
       /\ (Resuming("loop", "condition") /\ ~Truthy(ctl.val)
             => /\ ctl' = Yield(None)
                /\ kont' = Rest
                /\ status' = "running"
                /\ Top.nc = Top.nb + 1)
       /\ \A k \in 0..MaxK :
             ir = Countdown(k) /\ status' = "done"
                => out' = [i \in 1..k |-> "it"]]_vars

\* a Loop has just ended on its third condition evaluation, after two bodies
C4_Witness ==
    /\ op = "LoopCond"
    /\ ctl = Yield(None)
    /\ ir = Countdown(2)
    /\ out = <<"it", "it">>

\* C5: a Branch evaluates its condition first; on its value it evaluates then
\* if truthy, else if falsy and present, and otherwise ends with no value;
\* what then or else hands back, value or VMReturn, is handed on and ends
\* the Branch.
C5_BranchOneArm ==
    [][/\ (Executing("branch") /\ WellFormed(ctl.node)
             => /\ ctl' = Eval(ctl.node.condition)
                /\ kont' = Push(Activation("branch", ctl.node, "condition")))
       /\ (Resuming("branch", "condition") /\ WellFormed(Top.node)
                /\ Truthy(ctl.val)
             => /\ ctl' = Eval(Top.node.then)
                /\ kont' = Replace([Top EXCEPT !.at = "then"]))
       /\ (Resuming("branch", "condition") /\ WellFormed(Top.node)
                /\ ~Truthy(ctl.val) /\ IsPresent(Top.node.else)
             => /\ ctl' = Eval(Top.node.else)
                /\ kont' = Replace([Top EXCEPT !.at = "else"]))
       /\ (Resuming("branch", "condition") /\ WellFormed(Top.node)
                /\ ~Truthy(ctl.val) /\ ~IsPresent(Top.node.else)
             => /\ ctl' = Yield(None)
                /\ kont' = Rest
                /\ out' = out /\ stack' = stack /\ status' = "running")
       /\ (Resuming("branch", "then") \/ Resuming("branch", "else")
             => ctl' = ctl /\ kont' = Rest)
       /\ (Raising /\ kont # <<>> /\ Top.k = "branch"
             => ctl' = ctl /\ kont' = Rest)]_vars

\* a Branch with a falsy condition and no else has just ended with no value
C5_Witness ==
    /\ op = "BranchCond"
    /\ ctl = Yield(None)
    /\ ir = Scenario4
    /\ out = <<>>

\* every Call whose callee body is running still sees below the callee the
\* caller's Frame exactly as it was when the callee's Frame was pushed
CallerFramesKept ==
    \A j \in 1..Len(kont) :
        kont[j].k = "call" /\ kont[j].at = "body" =>
            /\ kont[j].depth < Len(stack)
            /\ stack[kont[j].depth] = kont[j].saved

\* C6: while a callee body runs, the caller's Frame keeps the bindings it had
\* when the callee's Frame was pushed, and when the Call completes, normally
\* or by a caught Return, the stack is back at the caller's depth with that
\* Frame on top, also for recursive calls and for names bound on both sides.
C6_FrameIsolation ==
    [][/\ CallerFramesKept'
       /\ (Resuming("call", "body") \/ (Raising /\ AtCallBoundary)
             => /\ Len(stack') = Top.depth
                /\ stack'[Top.depth] = Top.saved
                /\ stack' = SubSeq(stack, 1, Top.depth))]_vars

\* the innermost of three nested activations of rec has just returned after
\* assigning a; its caller, and outer below, still hold their own a and x
C6_Witness ==
    /\ op = "CallCatch"
    /\ ir = Isolation
    /\ Len(stack) = 4
    /\ stack[4]["a"] = True /\ stack[4]["x"] = IntV(8)
    /\ stack[3]["b"] = True /\ stack[3]["x"] = IntV(8)
    /\ stack[2] = [x |-> IntV(1), a |-> True, y |-> IntV(2)]

\* C7: for a Call of a known function the arguments are evaluated one after
\* the other from the first, each starting in the caller's Frame with no
\* Frame pushed for the Call yet; the callee's Frame is pushed only when all
\* are evaluated, it binds the i-th parameter to the i-th argument value and
\* nothing else, and the body starts with it on top.
C7_ArgsBeforeFrame ==
    [][/\ (Executing("call") /\ WellFormed(ctl.node)
                /\ ctl.node.target \in DOMAIN functions
                /\ ctl.node.args # <<>>
             => /\ ctl' = Eval(ctl.node.args[1])
                /\ stack' = stack
                /\ TopAfter.vals = <<>> /\ TopAfter.depth = Len(stack))
       /\ (Resuming("call", "args") /\ Top.i < Len(Top.node.args)
             => /\ ctl' = Eval(Top.node.args[Top.i + 1])
                /\ stack' = stack
                /\ Len(stack) = Top.depth
                /\ Len(Top.vals) = Top.i - 1
                /\ TopAfter.vals = Append(Top.vals, ctl.val))
       /\ (op' = "CallEnter" /\ status' = "running"
             => LET f == TopAfter
                    params == functions[f.node.target].args
                IN /\ f.k = "call" /\ f.at = "body"
                   /\ Len(f.vals) = Len(f.node.args)
                   /\ Len(stack) = f.depth
                   /\ stack' = Append(stack, stack'[Len(stack')])
                   /\ DOMAIN stack'[Len(stack')] =
                         {params[i].name : i \in 1..Len(params)}
                   /\ \A i \in 1..Len(params) :
                         stack'[Len(stack')][params[i].name] = f.vals[i]
                   /\ ctl' = Eval(functions[f.node.target].body))
       /\ (ir = ArgOrder /\ status' = "done"
             => out' = <<"a1", "a3", "body">>)]_vars

\* the body of add starts with a and b bound to the values of the first and
\* second argument
C7_Witness ==
    /\ op = "CallEnter"
    /\ status = "running"
    /\ ir = Scenario2
    /\ env = [a |-> IntV(2), b |-> IntV(3)]
    /\ Top.vals = <<IntV(2), IntV(3)>>

\* C8: the body of a callee never starts for a Call whose argument count
\* differs from the callee's parameter count.
C8_ArityChecked ==
    \A j \in 1..Len(kont) :
        kont[j].k = "call" /\ kont[j].at = "body" =>
            Len(kont[j].node.args) = Len(functions[kont[j].node.target].args)

\* C9: a Call whose target is not in the function table fails with the
\* KeyError of the table lookup in the same step: no argument is evaluated,
\* nothing is written, and the stack is unchanged.
C9_UnknownFunctionFirst ==
    [][/\ (Executing("call") /\ WellFormed(ctl.node)
                /\ ctl.node.target \notin DOMAIN functions
             => /\ status' = "failed"
                /\ err' = KeyErrorFunctions
                /\ out' = out
                /\ stack' = stack
                /\ kont' = kont)
       /\ (ir = Scenario5 /\ status' = "failed" => out' = <<"before">>)]_vars

\* a Call of ghost with an Output argument has failed inside a callee: only
\* the output before the Call is there, and only the two Frames
C9_Witness ==
    /\ status = "failed"
    /\ err = KeyErrorFunctions
    /\ op = "ExecCall"
    /\ ir = GhostInCallee
    /\ ctl.node.target = "ghost"
    /\ out = <<"before">>
    /\ Len(stack) = 2

\* C10: Symbol(name) with name not bound in the top Frame fails with the
\* KeyError of the env lookup and hands back no value, whatever the Frames
\* below bind.
C10_UnboundInTopFrame ==
    [][Executing("symbol") /\ WellFormed(ctl.node)
            /\ ctl.node.name \notin DOMAIN stack[Len(stack)]
         => /\ status' = "failed"
            /\ err' = KeyErrorEnv
            /\ ctl' = ctl
            /\ UNCHANGED <<stack, out, kont>>]_vars

\* a callee has failed reading y, which its caller's Frame binds
C10_Witness ==
    /\ status = "failed"
    /\ err = KeyErrorEnv
    /\ ir = CallerOnly
    /\ Len(stack) = 2
    /\ ctl.node.name = "y"
    /\ "y" \in DOMAIN stack[1]
    /\ "y" \notin DOMAIN stack[2]

\* C11: when the Program has no function named main the run fails on the
\* missing entry point before any side effect: nothing has been written and
\* no Frame is on the call stack when the failure is raised.
C11_MissingMainNoEffect ==
    "main" \notin DOMAIN functions /\ status = "failed"
        => /\ err = KeyErrorFunctions
           /\ out = <<>>
           /\ stack = <<>>

\* C15: the Frame run() pushes for main is destroyed when main's body
\* completes: after a run that completed normally the call stack is empty
\* again, as it was before run().
C15_MainFramePopped == status = "done" => stack = <<>>

\* the shape the stub analyzer produces: Loop(true, Block[..., Return])
StubLoop(n) ==
    /\ WellFormed(n)
    /\ n.intent = "loop_until_break"
    /\ n.condition = Value(True)
    /\ WellFormed(n.body)
    /\ n.body.intent = "block"
    /\ \E i \in 2..Len(n.body.actions) :
          /\ WellFormed(n.body.actions[i])
          /\ n.body.actions[i].intent = "return"
          /\ \A h \in 1..(i - 1) : /\ WellFormed(n.body.actions[h])
                                   /\ n.body.actions[h].intent = "output_text"

\* C20: in meaning_engine.py a Loop with an always truthy condition whose
\* body is a Block of Outputs followed by a Return evaluates that body
\* exactly once: no activation of such a Loop starts its body a second time.
C20_StubLoopRunsOnce ==
    vm = "engine" =>
        \A j \in 1..Len(kont) :
            kont[j].k = "loop" /\ StubLoop(kont[j].node) => kont[j].nb <= 1

\* C13: a node that reaches exec with an unrecognized tag, without a field
\* of its variant or with an extra field makes the run fail, whichever path
\* evaluation takes through it: a run whose main evaluates such a node as
\* the second argument of a call never completes normally.
C13_MalformedNodeFails ==
    (\E n \in MalformedNodes : ir = Malformed(n)) => status # "done"

KnownOperations == {"greater_than", "less_than", "equal"}

\* C12: a failure raised during evaluation (unbound name, unknown function,
\* unknown operator, malformed node) aborts the whole run at once: the step
\* that raises it ends the run with that error, no pending Block, Branch,
\* Loop or Call activation takes it, nothing is evaluated or written after
\* it, and the run stays failed with the error it started with.
C12_FailureAbortsRun ==
    [][/\ status # "failed"
       /\ (Executing("symbol") /\ WellFormed(ctl.node) /\ ~Bound(ctl.node.name)
             => status' = "failed" /\ err' = KeyErrorEnv)
       /\ (Executing("call") /\ WellFormed(ctl.node)
                /\ ctl.node.target \notin DOMAIN functions
             => status' = "failed" /\ err' = KeyErrorFunctions)
       /\ (Resuming("compare", "right") /\ WellFormed(Top.node)
                /\ Top.node.operation \notin KnownOperations
             => /\ status' = "failed"
                /\ err' \in {UnknownIntent, UnknownCompareOp})
       /\ (status = "running" /\ ctl.mode = "exec"
                /\ (IF "intent" \in DOMAIN ctl.node
                    THEN ctl.node.intent \notin KnownIntents ELSE TRUE)
             => /\ status' = "failed"
                /\ err' \in {UnknownIntent, AttributeErrorNode})
       /\ (status' = "failed"
             => /\ err' # NoError
                /\ out' = out
                /\ kont' = kont
                /\ ctl' = ctl)
       /\ (ir = FailInside /\ status' = "failed"
             => /\ err' = KeyErrorEnv
                /\ out' = <<"before">>
                /\ \E j \in 1..Len(kont') :
                      kont'[j].k = "call" /\ kont'[j].at = "body")]_vars

C12_Witness ==
    /\ status = "failed"
    /\ ir = FailInside
    /\ err = KeyErrorEnv
    /\ out = <<"before">>
    /\ ctl = Eval(Symbol("y"))
    /\ \E c, l, b \in 1..Len(kont) :
          /\ c < l /\ l < b
          /\ kont[c].k = "call" /\ kont[c].at = "body"
          /\ kont[l].k = "loop" /\ kont[l].at = "body"
          /\ kont[b].k = "branch" /\ kont[b].at = "then"

\* C14: Compare evaluates left, then right, each once; for greater_than,
\* less_than and equal (on values the operator is defined on) it yields the
\* boolean result of the operator; for any other operation the run fails
\* with the unknown-operator error and Compare yields nothing.
C14_CompareBoolean ==
    [][/\ (Executing("compare") /\ WellFormed(ctl.node)
             => /\ ctl' = Eval(ctl.node.left)
                /\ kont' = Push(Activation("compare", ctl.node, "left")))
       /\ (Resuming("compare", "left") /\ WellFormed(Top.node)
             => /\ ctl' = Eval(Top.node.right)
                /\ kont' = Replace([Top EXCEPT !.at = "right",
                                               !.vals = <<ctl.val>>]))
       /\ (Resuming("compare", "right") /\ WellFormed(Top.node)
                /\ Top.node.operation \in KnownOperations
                /\ (Top.node.operation = "equal"
                       \/ Orderable(Top.vals[1], ctl.val))
             => /\ status' = "running"
                /\ kont' = Rest
                /\ ctl'.mode = "value"
                /\ ctl'.val \in {True, False}
                /\ ctl'.val =
                      BoolV(CASE Top.node.operation = "greater_than" ->
                                    Top.vals[1].n > ctl.val.n
                              [] Top.node.operation = "less_than" ->
                                    Top.vals[1].n < ctl.val.n
                              [] Top.node.operation = "equal" ->
                                    PyEq(Top.vals[1], ctl.val)))
       /\ (Resuming("compare", "right") /\ WellFormed(Top.node)
                /\ Top.node.operation \notin KnownOperations
             => /\ status' = "failed"
                /\ err' = UnknownCompareOp)]_vars

\* C16: Declare binds its name to the value of its expression in the top
\* Frame, overwriting a binding the name already has and leaving every other
\* binding alone; until the next Declare or Assign in that Frame the Frame
\* is unchanged, so a Symbol of that name yields that value.
C16_DeclareThenSymbol ==
    [][/\ (Resuming("declare", "value") /\ WellFormed(Top.node)
             => /\ ctl' = Yield(None)
                /\ Len(stack') = Len(stack)
                /\ \A j \in 1..(Len(stack) - 1) : stack'[j] = stack[j]
                /\ DOMAIN stack'[Len(stack)] = DOMAIN env \cup {Top.node.name}
                /\ stack'[Len(stack)][Top.node.name] = ctl.val
                /\ \A x \in DOMAIN env \ {Top.node.name} :
                      stack'[Len(stack)][x] = env[x])
       /\ (Executing("symbol") /\ WellFormed(ctl.node) /\ Bound(ctl.node.name)
             => /\ ctl' = Yield(env[ctl.node.name])
                /\ stack' = stack)
       /\ (Len(stack') = Len(stack) /\ op' \notin {"DeclareBind", "AssignBind"}
             => stack' = stack)
       /\ (ir = DeclareRead /\ status' = "done"
             => stack'[1] = [x |-> None, y |-> IntV(7), z |-> IntV(3),
                             w |-> IntV(7)])]_vars

C16_Witness ==
    /\ op = "DeclareBind"
    /\ ir = DeclareRead
    /\ env = [x |-> IntV(3), y |-> IntV(2), z |-> IntV(3)]
    /\ Top.k = "call" /\ Top.i = 4

\* C19: a Return in a callee unwinds exactly one call level: VMReturn leaves
\* only activations of the call that is executing, is caught at that call's
\* boundary, the callee's Frame is popped and the caller goes on at the Call
\* site with the returned value, its own Loop, Branch, Block and outer calls
\* still pending.
C19_ReturnOneLevel ==
    [][/\ (Raising /\ AtCallBoundary
             => /\ status' = "running"
                /\ ctl' = Yield(ctl.val)
                /\ kont' = Rest
                /\ Top.depth = Len(stack) - 1
                /\ stack' = SubSeq(stack, 1, Top.depth)
                /\ out' = out)
       /\ (Raising /\ kont # <<>> /\ ~AtCallBoundary
             => /\ Top.depth = Len(stack)
                /\ ctl' = ctl
                /\ kont' = Rest
                /\ stack' = stack)
       /\ (ir = ReturnInLoop /\ op' = "DeclareBind"
             => /\ Len(stack') = 2
                /\ stack'[2]["r"] = IntV(5)
                /\ \E j \in 1..Len(kont') : kont'[j].k = "loop")
       /\ (ir = ReturnInLoop /\ status' \in {"done", "escaped", "failed"}
             => status' = "done" /\ out' = <<"next", "next", "end">>)]_vars

C19_Witness ==
    /\ op = "DeclareBind"
    /\ ir = ReturnInLoop
    /\ env["r"] = IntV(5)
    /\ out = <<"next">>
    /\ \E j \in 1..Len(kont) :
          kont[j].k = "loop" /\ kont[j].at = "body" /\ kont[j].nb = 2

RECURSIVE FirstOutput(_)
RECURSIVE FirstOutputFrom(_, _)

\* the payload of the first output_text node of a depth-first traversal, as
\* a sequence of one payload, or the empty sequence when there is none
FirstOutput(n) ==
    IF n.t = "dict" /\ Get(n, "intent") = PyStr("output_text")
    THEN <<Get(n, "payload")>>
    ELSE FirstOutputFrom(Children(n), 1)

FirstOutputFrom(xs, i) ==
    IF i > Len(xs) THEN <<>>
    ELSE IF FirstOutput(xs[i]) # <<>> THEN FirstOutput(xs[i])
    ELSE FirstOutputFrom(xs, i + 1)

\* C17: the display string the backend files are rendered with is the
\* payload of the first Output node met in a depth-first traversal of the
\* encoded IR, whatever that payload is (the empty string included); the
\* default string is used only when the IR has no Output node.
C17_FirstOutputShown ==
    \A path \in DOMAIN files \ {"ir.json"} :
        files[path].msg =
            IF FirstOutput(to_json(tree)) = <<>>
            THEN DefaultMsg
            ELSE FirstOutput(to_json(tree))[1]

RECURSIVE NodesKeepFields(_)
\* every node below n carries a known discriminant and exactly the fields of
\* its variant
NodesKeepFields(n) ==
    \/ n = JsonNull
    \/ /\ WellFormed(n)
       /\ LET below ==
                CASE n.intent \in {"declare", "assign", "return"} -> <<n.value>>
                  [] n.intent = "compare" -> <<n.left, n.right>>
                  [] n.intent = "branch" -> <<n.condition, n.then, n.else>>
                  [] n.intent = "loop_until_break" -> <<n.condition, n.body>>
                  [] n.intent = "call" -> n.args
                  [] n.intent = "block" -> n.actions
                  [] OTHER -> <<>>
          IN \A i \in 1..Len(below) : NodesKeepFields(below[i])

\* C18: the encoding to_json produces for a tree of builder objects, written
\* by transpile and read back by run_vm, is structurally equal to the
\* encoding that was written, and the Program the evaluator is constructed
\* on has, in every node, the discriminant and all fields of its variant.
C18_RoundTrip ==
    /\ "ir.json" \in DOMAIN files
          => loads(files["ir.json"]) = to_json(tree)
    /\ op = "run_vm"
          => /\ ir = Walked(to_json(tree))
             /\ DOMAIN ir = {"meta", "functions"}
             /\ Len(ir.functions) = Len(tree.functions)
             /\ \A i \in 1..Len(ir.functions) :
                   /\ DOMAIN ir.functions[i] =
                         {"kind", "name", "args", "return_type", "body"}
                   /\ NodesKeepFields(ir.functions[i].body)

C18_Witness ==
    /\ op = "run_vm"
    /\ tree = StubTree("x is greater than 5", "loop")
    /\ ir = parse_to_ir_v3
    /\ functions = FunctionTable(parse_to_ir_v3)

\* the Calls whose callee Frame is pushed and whose body has not completed
PendingCalls(k) ==
    Cardinality({j \in 1..Len(k) : k[j].k = "call" /\ k[j].at = "body"})

\* C22: while run() is executing the call stack is never empty and its
\* depth is 1 plus the number of Calls whose Frame has been pushed and whose
\* body has not completed; a Call that completes, normally or by a caught
\* Return, pops exactly the Frame it pushed, which leaves the stack at the
\* depth it had before the Call with the caller's Frame on top.
C22_StackDiscipline ==
    [][/\ (status' = "running"
             => /\ stack' # <<>>
                /\ Len(stack') = 1 + PendingCalls(kont'))
       /\ (op' = "CallEnter" /\ status' = "running"
             => /\ TopAfter.depth = Len(stack)
                /\ stack' = Append(stack, stack'[Len(stack')]))
       /\ (Resuming("call", "body") \/ (Raising /\ AtCallBoundary)
             => /\ status' = "running"
                /\ kont' = Rest
                /\ Len(stack') = Top.depth
                /\ Len(stack') = Len(stack) - 1
                /\ \A j \in 1..Len(stack') : stack'[j] = stack[j])]_vars

C22_Witness ==
    /\ op = "CallReturn"
    /\ ir = ReturnInLoop
    /\ Len(stack) = 2
    /\ PendingCalls(kont) = 1
    /\ out = <<"next", "next">>
    /\ "r" \in DOMAIN env

\* C23: in meaning_engine.py a Block with zero actions completes normally:
\* no output, no binding, no VMReturn and no failure, and it yields no
\* value (None); it is never reported as an unknown intent.
C23_EmptyBlockCompletes ==
    [][vm = "engine" /\ Executing("block") /\ WellFormed(ctl.node)
          /\ ctl.node.actions = <<>>
         => /\ status' = "running"
            /\ ctl' = Yield(None)
            /\ UNCHANGED <<stack, out, kont>>]_vars

Sub(n, field) == IF field \in DOMAIN n THEN <<n[field]>> ELSE <<>>

\* the nodes directly below a node, whatever fields it has
Kids(n) ==
    IF "intent" \notin DOMAIN n THEN <<>>
    ELSE CASE n.intent \in {"declare", "assign", "return"} -> Sub(n, "value")
           [] n.intent = "compare" -> Sub(n, "left") \o Sub(n, "right")
           [] n.intent = "branch" ->
                Sub(n, "condition") \o Sub(n, "then") \o Sub(n, "else")
           [] n.intent = "loop_until_break" ->
                Sub(n, "condition") \o Sub(n, "body")
           [] n.intent = "call" ->
                IF "args" \in DOMAIN n THEN n.args ELSE <<>>
           [] n.intent = "block" ->
                IF "actions" \in DOMAIN n THEN n.actions ELSE <<>>
           [] OTHER -> <<>>

RECURSIVE BlocksAtMost(_, _)
\* every Block at or below n has at most k actions
BlocksAtMost(n, k) ==
    /\ Len(IF "intent" \in DOMAIN n /\ n.intent = "block" THEN Kids(n)
           ELSE <<>>) <= k
    /\ \A i \in 1..Len(Kids(n)) : BlocksAtMost(Kids(n)[i], k)

SmallBlocks(program) ==
    \A i \in 1..Len(program.functions) :
        BlocksAtMost(program.functions[i].body, 1)

\* C21: on a Program in which every Block has at most one action the two
\* copies of MeaningVM agree step by step: the run of the all-in-one copy
\* leaves after each step the output, the Frames and the status the run of
\* the engine copy left after the same step, and ends after as many steps.
C21_CopiesAgree ==
    SmallBlocks(ir) /\ vm = "all_in_one" /\ ref # <<>>
        => /\ Len(log) <= Len(ref)
           /\ \A i \in 1..Len(log) : log[i] = ref[i]
           /\ (status \in {"done", "failed", "escaped"}
                  => Len(log) = Len(ref))

====
